---- MODULE Spec2Model ----
(***************************************************************************)
(* State-machine model of telegram_audio_bot.py: the Telethon event        *)
(* dispatch, the audio_handler coroutine (one run per eligible message),   *)
(* transcribe_audio, create_pdf and the working directory temp_files/.     *)
(*                                                                         *)
(* Strings the code inspects (message text, MIME type, file names) are     *)
(* sequences of one-character strings; transcripts are sequences of        *)
(* Unicode code points, so len(), slicing and latin-1 encoding are         *)
(* computed as Python computes them.                                       *)
(*                                                                         *)
(* The handler is a coroutine on a single-threaded asyncio event loop:     *)
(* every action is the code between two awaits.  A synchronous call that   *)
(* blocks (openai ...create, file writes) keeps the loop's thread: the     *)
(* variable busy names the run inside such a call.                         *)
(***************************************************************************)
EXTENDS Integers, Sequences, FiniteSets, TLC

VARIABLES
    inbox,      \* one record per dispatched message, in arrival order
    runs,       \* message index -> state of the audio_handler coroutine
    files,      \* the directory temp_files/: path -> content
    now,        \* wall clock, in seconds
    busy,       \* run whose synchronous call holds the event loop (0: none)
    connected,  \* bot.run_until_disconnected() is still running
    rtext,      \* renderer harness: a transcript
    rpdf,       \* renderer harness: <<create_pdf(rtext)>> once rendered
    rpreview    \* renderer harness: <<preview of rtext>> once composed

vars == <<inbox, runs, files, now, busy, connected, rtext, rpdf, rpreview>>

pipelineVars == <<inbox, runs, files, now, busy, connected>>
renderVars == <<rtext, rpdf, rpreview>>

----------------------------------------------------------------------------
(* Bounds of the model *)

MaxMsgs == 2        \* messages dispatched in one behaviour
MaxClock == 1       \* the clock runs over 0..MaxClock seconds
MaxLen == 3         \* length of the short transcripts of the renderer harness
LongSlack == 2      \* long transcripts have PreviewLen-LongSlack..PreviewLen+LongSlack characters

----------------------------------------------------------------------------
(* Python string helpers *)

\* str.startswith(prefix)
StartsWith(s, p) ==
    /\ Len(s) >= Len(p)
    /\ SubSeq(s, 1, Len(p)) = p

\* index of the last occurrence of c in s, 0 when absent (str.rfind + 1)
LastIndexOf(s, c) ==
    IF \E i \in 1..Len(s) : s[i] = c
    THEN CHOOSE i \in 1..Len(s) : s[i] = c /\ \A j \in (i+1)..Len(s) : s[j] # c
    ELSE 0

\* s.split("/")[-1]
LastSegment(s) == SubSeq(s, LastIndexOf(s, "/") + 1, Len(s))

\* str(n) for a natural number
RECURSIVE Str(_)
Str(n) ==
    LET d == <<"0", "1", "2", "3", "4", "5", "6", "7", "8", "9">>
    IN IF n < 10 THEN <<d[n + 1]>> ELSE Str(n \div 10) \o <<d[(n % 10) + 1]>>

\* a fixed-width two-digit field, as strftime pads %S
TwoDigits(n) ==
    LET d == <<"0", "1", "2", "3", "4", "5", "6", "7", "8", "9">>
    IN <<d[((n \div 10) % 10) + 1], d[(n % 10) + 1]>>

----------------------------------------------------------------------------
(* Inbound messages *)

Users == {7, 42}

NoText == <<>>          \* no text or caption: event.message.text is falsy
Texts ==
    { NoText,
      <<"h", "i">>,
      <<"/", "s", "t", "a", "r", "t">>,
      <<"/", "h", "e", "l", "p">>,
      <<"/", "x">> }

AudioOgg == <<"a", "u", "d", "i", "o", "/", "o", "g", "g">>
AudioMpeg == <<"a", "u", "d", "i", "o", "/", "m", "p", "e", "g">>
VideoMp4 == <<"v", "i", "d", "e", "o", "/", "m", "p", "4">>
NoMime == <<>>          \* document.mime_type is None or empty

\* message.voice is the document itself when the document is a voice note
Medias ==
    { [voice |-> FALSE, document |-> FALSE, mime_type |-> NoMime],
      [voice |-> TRUE,  document |-> TRUE,  mime_type |-> AudioOgg],
      [voice |-> FALSE, document |-> TRUE,  mime_type |-> AudioMpeg],
      [voice |-> FALSE, document |-> TRUE,  mime_type |-> VideoMp4],
      [voice |-> FALSE, document |-> TRUE,  mime_type |-> NoMime] }

Messages == [sender_id : Users, text : Texts, media : Medias]

----------------------------------------------------------------------------
(* Handler registration and the guards of audio_handler *)

\* the handlers in registration order; pattern <<>> is events.NewMessage
\* without a pattern
Handlers ==
    << [pattern |-> <<"/", "s", "t", "a", "r", "t">>, callback |-> "start_handler"],
       [pattern |-> <<"/", "h", "e", "l", "p">>, callback |-> "help_handler"],
       [pattern |-> <<"/", "f", "o", "r", "m", "a", "t", "s">>, callback |-> "formats_handler"],
       [pattern |-> <<"/", "l", "a", "n", "g", "u", "a", "g", "e", "s">>, callback |-> "languages_handler"],
       [pattern |-> <<"/", "a", "b", "o", "u", "t">>, callback |-> "about_handler"],
       [pattern |-> <<>>, callback |-> "audio_handler"] >>

\* events.NewMessage(pattern=p) filters with re.match(p, text): a literal
\* pattern matches when the text begins with it
PatternMatches(h, msg) == StartsWith(msg.text, h.pattern)

\* the command check left out
IsCommand_Unchecked(msg) == FALSE

\* "if event.message.text and event.message.text.startswith('/'): return"
IsCommand(msg) ==
    /\ Len(msg.text) > 0
    /\ StartsWith(msg.text, <<"/">>)

\* "event.message.voice or (document and mime_type and mime_type.startswith('audio/'))"
ContainsAudio(msg) ==
    \/ msg.media.voice
    \/ /\ msg.media.document
       /\ Len(msg.media.mime_type) > 0
       /\ StartsWith(msg.media.mime_type, <<"a", "u", "d", "i", "o", "/">>)

\* the callback passes both early returns and enters the try block
StartsRun(h, msg) ==
    /\ h.callback = "audio_handler"
    /\ ~IsCommand(msg)
    /\ ContainsAudio(msg)

----------------------------------------------------------------------------
(* Working-file names *)

TEMP_DIR == <<"temp_files", "/">>

\* datetime.now().strftime("%Y%m%d_%H%M%S"): fixed width, one value per second
FileStamp(t) == <<"20241201", "_", "0000">> \o TwoDigits(t)

\* datetime.now().strftime("%Y-%m-%d %H:%M:%S")
DateStamp(t) == <<"2024-12-01", " ", "00:00:">> \o TwoDigits(t)

AudioPath(r) ==
    IF r.voice
    THEN TEMP_DIR \o <<"v", "o", "i", "c", "e", "_">> \o Str(r.user_id)
             \o <<"_">> \o r.timestamp \o <<".", "o", "g", "g">>
    ELSE TEMP_DIR \o <<"a", "u", "d", "i", "o", "_">> \o Str(r.user_id)
             \o <<"_">> \o r.timestamp \o <<".">> \o LastSegment(r.mime_type)

\* the artifacts named by the second alone
TranscriptionName_NoUser(r) ==
    TEMP_DIR \o <<"t", "r", "a", "n", "s", "c", "r", "i", "p", "t", "i", "o", "n", "_">>
        \o r.timestamp

TranscriptionName(r) ==
    TEMP_DIR \o <<"t", "r", "a", "n", "s", "c", "r", "i", "p", "t", "i", "o", "n", "_">>
        \o Str(r.user_id) \o <<"_">> \o r.timestamp

TxtPath(r) == TranscriptionName(r) \o <<".", "t", "x", "t">>

PdfPath(r) == TranscriptionName(r) \o <<".", "p", "d", "f">>

----------------------------------------------------------------------------
(* Transcripts: sequences of code points *)

NL == 10                \* "\n"
Dot == 46               \* "."
ReplacementChar == 63   \* "?", what errors="replace" encodes
Latin1Max == 255        \* the last code point latin-1 encodes
PreviewLen == 500       \* transcription[:500]
SeparatorWidth == 50    \* '-' * 50

\* a, e-acute (latin-1), the euro sign (not latin-1), space, newline
Alphabet == {97, 233, 8364, 32, NL}

ShortTranscripts == UNION {[1..n -> Alphabet] : n \in 0..MaxLen}

\* a long text whose characters at and after the cut are recognisable
LongTranscript(n) ==
    [i \in 1..n |-> IF i = PreviewLen THEN 233
                    ELSE IF i = PreviewLen + 1 THEN 8364
                    ELSE 97]

LongTranscripts ==
    {LongTranscript(n) : n \in (PreviewLen - LongSlack)..(PreviewLen + LongSlack)}

Transcripts == ShortTranscripts \cup LongTranscripts

\* what the provider returns in the pipeline: "hi" and "<euro>\na"
ProviderTexts == { <<104, 105>>, <<8364, NL, 97>> }

\* str(e) of the exceptions the connector, the provider and the file system raise
Errors == {"timed out", "connection reset"}

----------------------------------------------------------------------------
(* create_pdf and the text artifact *)

\* errors="ignore": characters latin-1 lacks are dropped
Latin1Ignore(s) == SelectSeq(s, LAMBDA c : c <= Latin1Max)

\* para.encode("latin-1", "replace").decode("latin-1")
Latin1Replace(s) ==
    [i \in 1..Len(s) |-> IF s[i] <= Latin1Max THEN s[i] ELSE ReplacementChar]

\* text.split("\n")
RECURSIVE Split(_)
Split(s) ==
    IF \A i \in 1..Len(s) : s[i] # NL
    THEN <<s>>
    ELSE LET k == CHOOSE i \in 1..Len(s) :
                      s[i] = NL /\ \A j \in 1..(i-1) : s[j] # NL
         IN <<SubSeq(s, 1, k - 1)>> \o Split(SubSeq(s, k + 1, Len(s)))

\* characters str.strip() removes
IsSpace(c) ==
    c \in (9..13) \cup (28..32) \cup {133, 160, 5760, 8232, 8233, 8239, 8287, 12288}
            \cup (8192..8202)

\* "if para.strip()"
NonBlank(para) == \E i \in 1..Len(para) : ~IsSpace(para[i])

\* the multi_cell paragraphs, in order
RECURSIVE Paragraphs(_)
Paragraphs(paras) ==
    IF paras = <<>> THEN <<>>
    ELSE (IF NonBlank(Head(paras)) THEN <<Latin1Replace(Head(paras))>> ELSE <<>>)
             \o Paragraphs(Tail(paras))

\* create_pdf(text, output_path): the document handed to pdf.output at second t.
\* The except branch cannot be entered for a str: split, strip and
\* encode(errors="replace") do not raise.
create_pdf(text, t) ==
    [ kind |-> "pdf",
      head |-> <<"Audio Transcription", "Date: ">> \o DateStamp(t),
      body |-> Paragraphs(Split(text)) ]

\* the text file given the transcript as the PDF gets it, latin-1 only
TxtContent_Latin1(text, t) ==
    [ kind |-> "txt",
      head |-> <<"Audio Transcription", "\n", "Date: ">> \o DateStamp(t)
                   \o <<"\n">> \o [i \in 1..SeparatorWidth |-> "-"] \o <<"\n", "\n">>,
      body |-> <<Latin1Replace(text)>> ]

\* the four f.write calls of the text file, written at second t
TxtContent(text, t) ==
    [ kind |-> "txt",
      head |-> <<"Audio Transcription", "\n", "Date: ">> \o DateStamp(t)
                   \o <<"\n">> \o [i \in 1..SeparatorWidth |-> "-"] \o <<"\n", "\n">>,
      body |-> <<text>> ]

\* what download_media stores for message m
AudioContent(m) == [kind |-> "audio", head |-> Str(m), body |-> <<>>]

\* the marker appended from 500 characters on
Preview_MarkerAtLimit(text) ==
    SubSeq(text, 1, IF Len(text) < PreviewLen THEN Len(text) ELSE PreviewLen)
        \o (IF Len(text) >= PreviewLen THEN <<Dot, Dot, Dot>> ELSE <<>>)

\* f"{transcription[:500]}{'...' if len(transcription) > 500 else ''}"
Preview(text) ==
    SubSeq(text, 1, IF Len(text) < PreviewLen THEN Len(text) ELSE PreviewLen)
        \o (IF Len(text) > PreviewLen THEN <<Dot, Dot, Dot>> ELSE <<>>)

\* the text of the completion message
CompletionText(text) ==
    [ head |-> <<"**Transcription Complete!**", "\n\n", "Preview:", "\n">>,
      preview |-> Preview(text) ]

\* a fixed failure text that leaves the exception out
FailureText_Generic(e) ==
    <<"Error processing audio", "\n\nPlease try again or contact support.">>

\* the text of the failure message for exception e
FailureText(e) ==
    <<"Error processing audio: ", e, "\n\nPlease try again or contact support.">>

----------------------------------------------------------------------------
(* The audio_handler coroutine *)

StatusProcessing == "Processing your audio... Please wait."
StatusTranscribing == "Transcribing audio with AI..."
StatusSending == "Sending your transcription..."

\* the coroutine after both guards passed: it has entered the try block and
\* awaits event.respond(StatusProcessing)
NewRun(msg) ==
    [ pc |-> "ack",
      user_id |-> msg.sender_id,
      voice |-> msg.media.voice,
      mime_type |-> msg.media.mime_type,
      timestamp |-> <<>>,
      transcription |-> <<>>,
      status |-> <<>>,              \* <<text of status_msg>> once it is sent
      status_deleted |-> FALSE,
      handle |-> "none",            \* audio_file of transcribe_audio
      cause |-> "none",             \* str(e) of the exception caught
      provider_error |-> "none",    \* str(e) of the exception the provider raised
      failedAt |-> "none",          \* the call that raised
      escaped |-> FALSE,            \* an exception left audio_handler
      created |-> {},               \* paths this run has written
      completion |-> <<>>,          \* <<completion message>> once sent
      failure |-> <<>>,             \* <<failure message>> once sent
      log |-> <<"ack">> ]           \* the calls made, in order

\* the exception recorded but the coroutine left where it was
Raise_Swallowed(run, stage, e) ==
    [run EXCEPT !.cause = e, !.failedAt = stage, !.log = Append(@, "raise")]

\* an exception with text e raised by the call `stage` inside the try block:
\* control moves to "except Exception as e", which logs and awaits
\* event.respond(FailureText(e))
Raise(run, stage, e) ==
    [run EXCEPT !.pc = "except", !.cause = e, !.failedAt = stage,
                !.log = Append(@, "raise")]

Running(r) == r \in DOMAIN runs /\ connected

\* the event loop resumes coroutine r: no synchronous call holds the thread
Resumes(r, at) ==
    /\ Running(r)
    /\ busy = 0
    /\ runs[r].pc = at

SetRun(r, run) == runs' = [runs EXCEPT ![r] = run]

WriteFile(dir, path, content) ==
    [p \in DOMAIN dir \cup {path} |-> IF p = path THEN content ELSE dir[p]]

\* Telethon builds the event and calls every handler whose filter matches
Dispatch(msg) ==
    /\ connected
    /\ busy = 0
    /\ Len(inbox) < MaxMsgs
    /\ LET m == Len(inbox) + 1
           called == {i \in 1..Len(Handlers) : PatternMatches(Handlers[i], msg)}
           starting == {i \in called : StartsRun(Handlers[i], msg)}
       IN /\ inbox' = Append(inbox,
                 [ slash |-> Len(msg.text) > 0 /\ msg.text[1] = "/",
                   voice |-> msg.media.voice,
                   audio_doc |-> /\ msg.media.document
                                 /\ Len(msg.media.mime_type) >= 6
                                 /\ SubSeq(msg.media.mime_type, 1, 6)
                                        = <<"a", "u", "d", "i", "o", "/">>,
                   handlers |-> Cardinality(called),
                   started |-> Cardinality(starting) ])
          /\ runs' = IF starting = {} THEN runs
                     ELSE [r \in DOMAIN runs \cup {m} |->
                              IF r = m THEN NewRun(msg) ELSE runs[r]]
    /\ UNCHANGED <<files, now, busy, connected, renderVars>>

\* lines 276-290: the acknowledgment is sent, the names are computed and
\* download_media is awaited
AckDone(r) ==
    /\ Resumes(r, "ack")
    /\ \/ SetRun(r, [runs[r] EXCEPT
                !.status = <<StatusProcessing>>,
                !.timestamp = FileStamp(now),
                !.pc = "download",
                !.log = Append(@, "download")])
       \/ \E e \in Errors : SetRun(r, Raise(runs[r], "ack", e))
    /\ UNCHANGED <<inbox, files, now, busy, connected, renderVars>>

\* lines 290-294: the audio is on disk, status_msg.edit is awaited
DownloadDone(r) ==
    /\ Resumes(r, "download")
    /\ \/ /\ files' = WriteFile(files, AudioPath(runs[r]), AudioContent(r))
          /\ SetRun(r, [runs[r] EXCEPT
                !.created = @ \cup {AudioPath(runs[r])},
                !.pc = "edit1",
                !.log = Append(@, "edit1")])
       \/ /\ \E e \in Errors : SetRun(r, Raise(runs[r], "download", e))
          /\ UNCHANGED files
    /\ UNCHANGED <<inbox, now, busy, connected, renderVars>>

\* the provider called without the status edit before it
Edit1Done_NoEdit(r) ==
    /\ Resumes(r, "edit1")
    /\ \/ /\ SetRun(r, [runs[r] EXCEPT
                !.handle = "open",
                !.pc = "transcribe",
                !.log = Append(@, "transcribe")])
          /\ busy' = r
       \/ /\ \E e \in Errors : SetRun(r, Raise(runs[r], "edit1", e))
          /\ UNCHANGED busy
    /\ UNCHANGED <<inbox, files, now, connected, renderVars>>

\* lines 294-297 and 56-58: the status is edited, transcribe_audio opens the
\* file and calls the provider synchronously: the thread is held
Edit1Done(r) ==
    /\ Resumes(r, "edit1")
    /\ \/ /\ SetRun(r, [runs[r] EXCEPT
                !.status = <<StatusTranscribing>>,
                !.handle = "open",
                !.pc = "transcribe",
                !.log = Append(@, "transcribe")])
          /\ busy' = r
       \/ /\ \E e \in Errors : SetRun(r, Raise(runs[r], "edit1", e))
          /\ UNCHANGED busy
    /\ UNCHANGED <<inbox, files, now, connected, renderVars>>


\* the file opened without a with block: an exception skips the close
transcribe_audio_Leaky(run, ok, result) ==
    IF ok
    THEN [run EXCEPT !.handle = "closed", !.transcription = result, !.pc = "render"]
    ELSE Raise(run, "transcribe", result)

\* the except clause raising an exception of its own in place of the provider's
transcribe_audio_Wrapped(run, ok, result) ==
    IF ok
    THEN [run EXCEPT !.handle = "closed", !.transcription = result, !.pc = "render"]
    ELSE Raise([run EXCEPT !.handle = "closed"], "transcribe", "Transcription failed")

\* lines 58-64: the provider call ends.  Leaving the with block closes the
\* file on both exits; the except clause logs and re-raises the same exception
transcribe_audio(run, ok, result) ==
    IF ok
    THEN [run EXCEPT !.handle = "closed", !.transcription = result, !.pc = "render"]
    ELSE Raise([run EXCEPT !.handle = "closed"], "transcribe", result)

TranscribeDone(r) ==
    /\ Running(r)
    /\ busy = r
    /\ runs[r].pc = "transcribe"
    /\ \/ /\ \E t \in ProviderTexts : SetRun(r, transcribe_audio(runs[r], TRUE, t))
          /\ UNCHANGED busy
       \/ /\ \E e \in Errors :
                SetRun(r, [transcribe_audio(runs[r], FALSE, e) EXCEPT !.provider_error = e])
          /\ busy' = 0
    /\ UNCHANGED <<inbox, files, now, connected, renderVars>>

\* a PDF that could not be written passed over: the run goes on without it
RenderDone_PdfSkipped(r) ==
    /\ Running(r)
    /\ busy = r
    /\ runs[r].pc = "render"
    /\ LET run == runs[r]
           txt == TxtContent(run.transcription, now)
           pdf == create_pdf(run.transcription, now)
           withTxt == WriteFile(files, TxtPath(run), txt)
       IN \/ /\ files' = WriteFile(withTxt, PdfPath(run), pdf)
             /\ SetRun(r, [run EXCEPT
                   !.created = @ \cup {TxtPath(run), PdfPath(run)},
                   !.pc = "edit2",
                   !.log = @ \o <<"txt", "pdf", "edit2">>])
          \/ /\ UNCHANGED files
             /\ \E e \in Errors :
                   SetRun(r, Raise([run EXCEPT !.log = Append(@, "txt")], "txt", e))
          \/ /\ files' = withTxt
             /\ SetRun(r, [run EXCEPT
                   !.created = @ \cup {TxtPath(run)},
                   !.pc = "edit2",
                   !.log = @ \o <<"txt", "pdf", "edit2">>])
    /\ busy' = 0
    /\ UNCHANGED <<inbox, now, connected, renderVars>>

\* lines 300-313: the text file and the PDF are written synchronously, then
\* status_msg.edit is awaited.  open()/write() and pdf.output() raise OSError
\* when the disk refuses the write.
RenderDone(r) ==
    /\ Running(r)
    /\ busy = r
    /\ runs[r].pc = "render"
    /\ LET run == runs[r]
           txt == TxtContent(run.transcription, now)
           pdf == create_pdf(run.transcription, now)
           withTxt == WriteFile(files, TxtPath(run), txt)
       IN \/ /\ files' = WriteFile(withTxt, PdfPath(run), pdf)
             /\ SetRun(r, [run EXCEPT
                   !.created = @ \cup {TxtPath(run), PdfPath(run)},
                   !.pc = "edit2",
                   !.log = @ \o <<"txt", "pdf", "edit2">>])
          \/ /\ UNCHANGED files
             /\ \E e \in Errors :
                   SetRun(r, Raise([run EXCEPT !.log = Append(@, "txt")], "txt", e))
          \/ /\ files' = withTxt
             /\ \E e \in Errors :
                   SetRun(r, Raise([run EXCEPT
                       !.created = @ \cup {TxtPath(run)},
                       !.log = @ \o <<"txt", "pdf">>], "pdf", e))
    /\ busy' = 0
    /\ UNCHANGED <<inbox, now, connected, renderVars>>

\* lines 313-319: the status is edited, event.respond(..., file=[...]) is awaited
Edit2Done(r) ==
    /\ Resumes(r, "edit2")
    /\ \/ SetRun(r, [runs[r] EXCEPT
                !.status = <<StatusSending>>,
                !.pc = "deliver",
                !.log = Append(@, "deliver")])
       \/ \E e \in Errors : SetRun(r, Raise(runs[r], "edit2", e))
    /\ UNCHANGED <<inbox, files, now, busy, connected, renderVars>>

\* the completion message sent with the text file alone
DeliverDone_TxtOnly(r) ==
    /\ Resumes(r, "deliver")
    /\ \/ SetRun(r, [runs[r] EXCEPT
                !.completion = << [ text |-> CompletionText(runs[r].transcription),
                                    file |-> <<TxtPath(runs[r])>>,
                                    sent |-> <<files[TxtPath(runs[r])]>> ] >>,
                !.pc = "delete",
                !.log = Append(@, "delete")])
       \/ \E e \in Errors : SetRun(r, Raise(runs[r], "deliver", e))
    /\ UNCHANGED <<inbox, files, now, busy, connected, renderVars>>

\* lines 316-322: the completion message went out with the two files as they
\* are on disk, status_msg.delete is awaited
DeliverDone(r) ==
    /\ Resumes(r, "deliver")
    /\ \/ SetRun(r, [runs[r] EXCEPT
                !.completion = << [ text |-> CompletionText(runs[r].transcription),
                                    file |-> <<TxtPath(runs[r]), PdfPath(runs[r])>>,
                                    sent |-> <<files[TxtPath(runs[r])],
                                               files[PdfPath(runs[r])]>> ] >>,
                !.pc = "delete",
                !.log = Append(@, "delete")])
       \/ \E e \in Errors : SetRun(r, Raise(runs[r], "deliver", e))
    /\ UNCHANGED <<inbox, files, now, busy, connected, renderVars>>

\* the handler removing its working files before it returns
DeleteDone_Cleanup(r) ==
    /\ Resumes(r, "delete")
    /\ \/ /\ SetRun(r, [runs[r] EXCEPT !.status_deleted = TRUE, !.pc = "done"])
          /\ files' = [p \in DOMAIN files \ runs[r].created |-> files[p]]
       \/ /\ \E e \in Errors : SetRun(r, Raise(runs[r], "delete", e))
          /\ UNCHANGED files
    /\ UNCHANGED <<inbox, now, busy, connected, renderVars>>

\* lines 322-325: the status message is gone, "Files saved" is logged and the
\* handler returns; nothing is removed from temp_files/
DeleteDone(r) ==
    /\ Resumes(r, "delete")
    /\ \/ SetRun(r, [runs[r] EXCEPT !.status_deleted = TRUE, !.pc = "done"])
       \/ \E e \in Errors : SetRun(r, Raise(runs[r], "delete", e))
    /\ UNCHANGED <<inbox, files, now, busy, connected, renderVars>>

\* an exception that leaves the handler ends run_until_disconnected
ExceptDone_Fatal(r) ==
    /\ Resumes(r, "except")
    /\ \/ /\ SetRun(r, [runs[r] EXCEPT
                !.failure = <<FailureText(runs[r].cause)>>,
                !.pc = "failed",
                !.log = Append(@, "failmsg")])
          /\ UNCHANGED connected
       \/ /\ SetRun(r, [runs[r] EXCEPT !.escaped = TRUE, !.pc = "failed"])
          /\ connected' = FALSE
    /\ UNCHANGED <<inbox, files, now, busy, renderVars>>

\* the except clause removing the status message once it has answered
ExceptDone_DeletesStatus(r) ==
    /\ Resumes(r, "except")
    /\ \/ SetRun(r, [runs[r] EXCEPT
                !.failure = <<FailureText(runs[r].cause)>>,
                !.status_deleted = (runs[r].status # <<>>),
                !.pc = "failed",
                !.log = Append(@, "failmsg")])
       \/ SetRun(r, [runs[r] EXCEPT !.escaped = TRUE, !.pc = "failed"])
    /\ UNCHANGED <<inbox, files, now, busy, connected, renderVars>>

\* lines 327-331: the respond of the except clause ends.  When it raises too,
\* the exception leaves audio_handler; Telethon logs it and keeps dispatching
ExceptDone(r) ==
    /\ Resumes(r, "except")
    /\ \/ SetRun(r, [runs[r] EXCEPT
                !.failure = <<FailureText(runs[r].cause)>>,
                !.pc = "failed",
                !.log = Append(@, "failmsg")])
       \/ SetRun(r, [runs[r] EXCEPT !.escaped = TRUE, !.pc = "failed"])
    /\ UNCHANGED <<inbox, files, now, busy, connected, renderVars>>

\* a second of wall-clock time passes
Tick ==
    /\ now < MaxClock
    /\ now' = now + 1
    /\ UNCHANGED <<inbox, runs, files, busy, connected, renderVars>>

\* Ctrl+C or a disconnect ends run_until_disconnected
Stop ==
    /\ connected
    /\ connected' = FALSE
    /\ UNCHANGED <<inbox, runs, files, now, busy, renderVars>>

----------------------------------------------------------------------------
(* The pipeline *)

Init ==
    /\ inbox = <<>>
    /\ runs = <<>>
    /\ files = <<>>
    /\ now = 0
    /\ busy = 0
    /\ connected = TRUE
    /\ rtext = <<>>
    /\ rpdf = <<>>
    /\ rpreview = <<>>

RunStep(r) ==
    \/ AckDone(r)
    \/ DownloadDone(r)
    \/ Edit1Done(r)
    \/ TranscribeDone(r)
    \/ RenderDone(r)
    \/ Edit2Done(r)
    \/ DeliverDone(r)
    \/ DeleteDone(r)
    \/ ExceptDone(r)

Receive == \E msg \in Messages : Dispatch(msg)

Next ==
    \/ Receive
    \/ \E r \in 1..MaxMsgs : RunStep(r)
    \/ Tick
    \/ Stop

Spec == Init /\ [][Next]_vars

----------------------------------------------------------------------------
(* The renderer harness: create_pdf and the preview on every transcript *)

RenderInit ==
    /\ Init!1 /\ Init!2 /\ Init!3 /\ Init!4 /\ Init!5 /\ Init!6
    /\ rtext \in Transcripts
    /\ rpdf = <<>>
    /\ rpreview = <<>>

RenderDocument ==
    /\ rpdf = <<>>
    /\ rpdf' = <<create_pdf(rtext, now)>>
    /\ UNCHANGED <<pipelineVars, rtext, rpreview>>

ComposePreview ==
    /\ rpreview = <<>>
    /\ rpreview' = <<CompletionText(rtext)>>
    /\ UNCHANGED <<pipelineVars, rtext, rpdf>>

RenderNext ==
    \/ RenderDocument
    \/ ComposePreview
    \/ Tick

SpecRender == RenderInit /\ [][RenderNext]_vars

----------------------------------------------------------------------------
(* Claims *)

Terminated(r) == runs[r].pc \in {"done", "failed"}

C2_OneRunIffEligible ==
    \A m \in 1..Len(inbox) :
        LET eligible == /\ ~inbox[m].slash
                        /\ (inbox[m].voice \/ inbox[m].audio_doc)
        IN /\ inbox[m].started = (IF eligible THEN 1 ELSE 0)
           /\ m \in DOMAIN runs <=> eligible

\* a /start message carrying a voice note reached two handlers and started no
\* run; the voice note after it started one
C2_Witness ==
    /\ Len(inbox) = 2
    /\ inbox[1].slash /\ inbox[1].voice
    /\ inbox[1].handlers = 2 /\ inbox[1].started = 0
    /\ ~inbox[2].slash /\ inbox[2].voice
    /\ inbox[2].started = 1
    /\ DOMAIN runs = {2}


\* C3 (as stated): two runs of the same user whose file-name timestamps fall
\* in the same second use pairwise distinct audio, text and document paths.
C3_DistinctPathsSameSecond ==
    \A r, q \in DOMAIN runs :
        ( /\ r # q
          /\ runs[r].user_id = runs[q].user_id
          /\ runs[r].timestamp # <<>>
          /\ runs[r].timestamp = runs[q].timestamp )
        => /\ AudioPath(runs[r]) # AudioPath(runs[q])
           /\ TxtPath(runs[r]) # TxtPath(runs[q])
           /\ PdfPath(runs[r]) # PdfPath(runs[q])

InProgress(r) == r \in DOMAIN runs /\ ~Terminated(r)

\* the stages of a run that perform I/O: download_media, the provider call,
\* the artifact writes, the respond carrying the files
IOStages == {"download", "transcribe", "render", "deliver"}

\* C4 (as stated): while a run is in one of its I/O stages the dispatcher can
\* still start a run for a new message and every other run in progress can
\* still take its next step.
C4_NoRunBlocksAnother ==
    \A r \in DOMAIN runs :
        (connected /\ runs[r].pc \in IOStages)
        => /\ Len(inbox) < MaxMsgs => ENABLED Receive
           /\ \A q \in DOMAIN runs \ {r} : InProgress(q) => ENABLED RunStep(q)

ReportedStages == {"download", "transcribe", "deliver"}

Contains(seq, x) == \E i \in 1..Len(seq) : seq[i] = x

C6_PreviewTruncation ==
    rpreview # <<>> =>
        LET shown == rpreview[1].preview
        IN /\ Len(rtext) <= 500 => shown = rtext
           /\ Len(rtext) > 500 =>
                 /\ Len(shown) = 503
                 /\ \A i \in 1..500 : shown[i] = rtext[i]
                 /\ \A i \in 501..503 : shown[i] = 46

\* the preview of a transcript of 501 characters has been composed
C6_Witness ==
    /\ Len(rtext) = 501
    /\ rpreview # <<>>
    /\ Len(rpreview[1].preview) = 503
    /\ rpreview[1].preview[500] = 233
    /\ rpreview[1].preview[501] = 46

\* the preview of a transcript of exactly 500 characters has been composed
C6_WitnessAtLimit ==
    /\ Len(rtext) = 500
    /\ rpreview # <<>>
    /\ rpreview[1].preview = rtext

\* C7: a failing step of a run (an exception caught by the handler, or one
\* raised by the failure message itself) leaves the bot connected, the event
\* loop free for the dispatcher, the inbox and every other run as they were.
C7_FailureIsolated ==
    [][ \A r \in DOMAIN runs :
          ( /\ runs'[r] # runs[r]
            /\ \/ runs'[r].pc = "except"
               \/ runs'[r].pc = "failed" )
          => /\ connected'
             /\ busy' = 0
             /\ inbox' = inbox
             /\ \A q \in DOMAIN runs \ {r} : runs'[q] = runs[q] ]_vars

\* the first run failed and even its failure message raised; the message that
\* arrived meanwhile was accepted and its run went through to the end
C7_Witness ==
    /\ DOMAIN runs = {1, 2}
    /\ runs[1].pc = "failed" /\ runs[1].escaped
    /\ runs[2].pc = "done"
    /\ connected

\* C8: create_pdf completes for every transcript with a document that has
\* its title and date lines, and whose paragraphs are the non-blank lines of
\* the transcript with each character outside latin-1 replaced by "?".
C8_RenderSubstitutes ==
    rpdf # <<>> =>
        LET doc == rpdf[1]
            lines == SelectSeq(Split(rtext), NonBlank)
        IN /\ Len(doc.head) >= 2
           /\ Len(doc.body) = Len(lines)
           /\ \A k \in 1..Len(lines) :
                 /\ Len(doc.body[k]) = Len(lines[k])
                 /\ \A i \in 1..Len(lines[k]) :
                       doc.body[k][i] = IF lines[k][i] <= 255 THEN lines[k][i] ELSE 63

\* "a<euro>\n" was rendered as the one paragraph "a?"
C8_Witness ==
    /\ rtext = <<97, 8364, 10>>
    /\ rpdf # <<>>
    /\ rpdf[1].body = << <<97, 63>> >>

Order == <<"ack", "download", "edit1", "transcribe", "txt", "pdf", "edit2", "deliver", "delete">>

\* C10: the calls of a run are an initial part of acknowledge, download,
\* edit, transcribe, write text, write document, edit, deliver, delete, and
\* nothing but the failure message follows an exception; after a failed
\* download the audio file is never opened for the provider, and after a
\* failed transcription the run writes no artifact and sends no completion.
C10_StagesInOrderFailureAbsorbing ==
    \A r \in DOMAIN runs :
        /\ \E k \in 1..Len(Order) :
              \E tail \in {<<>>, <<"raise">>, <<"raise", "failmsg">>} :
                  runs[r].log = SubSeq(Order, 1, k) \o tail
        /\ runs[r].failedAt = "download" =>
              /\ ~Contains(runs[r].log, "transcribe")
              /\ runs[r].handle = "none"
        /\ runs[r].failedAt = "transcribe" =>
              /\ runs[r].created = {AudioPath(runs[r])}
              /\ ~Contains(runs[r].log, "txt")
              /\ ~Contains(runs[r].log, "pdf")
              /\ runs[r].completion = <<>>

\* one run ended after a failed download and one after a failed transcription
C10_Witness ==
    \E r, q \in DOMAIN runs :
        /\ runs[r].pc = "failed" /\ runs[r].failedAt = "download"
        /\ runs[q].pc = "failed" /\ runs[q].failedAt = "transcribe"
        /\ runs[q].failure # <<>>

\* C11: a run that has started its download, or any later work, has sent the
\* acknowledgment first; while download_media runs the status message still
\* reads "Processing..."; and the audio file is opened for the provider only
\* with the download finished and the status message already edited to
\* "Transcribing audio with AI...".
C11_AckBeforeWorkEditBeforeCall ==
    \A r \in DOMAIN runs :
        /\ Contains(runs[r].log, "download") =>
              /\ runs[r].log[1] = "ack"
              /\ runs[r].status # <<>>
              /\ runs[r].timestamp # <<>>
        /\ runs[r].status = <<>> =>
              /\ runs[r].created = {}
              /\ runs[r].timestamp = <<>>
              /\ runs[r].handle = "none"
        /\ runs[r].pc = "download" =>
              /\ runs[r].status = <<StatusProcessing>>
              /\ runs[r].created = {}
        /\ runs[r].pc = "transcribe" =>
              /\ runs[r].status = <<StatusTranscribing>>
              /\ AudioPath(runs[r]) \in runs[r].created
        /\ runs[r].handle # "none" =>
              /\ runs[r].status # <<StatusProcessing>>
              /\ AudioPath(runs[r]) \in runs[r].created

\* the provider call of a run is in flight: its audio is on disk and its
\* status message reads "Transcribing audio with AI..."
C11_Witness ==
    \E r \in DOMAIN runs :
        /\ runs[r].pc = "transcribe"
        /\ runs[r].handle = "open"
        /\ busy = r
        /\ runs[r].status = <<StatusTranscribing>>
        /\ AudioPath(runs[r]) \in DOMAIN files

\* the run called the provider and the provider returned a transcript
Transcribed(r) == Contains(runs[r].log, "txt")

\* C12 (as stated): no run whose transcription succeeded fails while its text
\* file or its PDF is written; it goes on to delivery with both artifacts.
C12_RenderingNeverFails ==
    \A r \in DOMAIN runs :
        Transcribed(r) =>
            /\ runs[r].failedAt \notin {"txt", "pdf"}
            /\ {TxtPath(runs[r]), PdfPath(runs[r])} \subseteq runs[r].created

\* C12 (amended): characters the PDF cannot encode are substituted and fail
\* nothing, but an error raised while the text file or the PDF is written is
\* caught by the handler like any other: the run moves to Failed, answers
\* with the failure message carrying the cause (unless that send raises) and
\* sends no completion; a run reaches delivery only with both artifacts
\* written, the PDF holding the substituted text.
C12_WriteFailureFailsRun ==
    \A r \in DOMAIN runs :
        /\ runs[r].failedAt \in {"txt", "pdf"} =>
              /\ runs[r].pc \in {"except", "failed"}
              /\ runs[r].completion = <<>>
              /\ ~Contains(runs[r].log, "deliver")
              /\ PdfPath(runs[r]) \notin runs[r].created
              /\ TxtPath(runs[r]) \in runs[r].created <=> runs[r].failedAt = "pdf"
              /\ runs[r].pc = "failed" =>
                    \/ runs[r].failure = <<FailureText(runs[r].cause)>>
                    \/ runs[r].escaped /\ runs[r].failure = <<>>
        /\ Contains(runs[r].log, "edit2") =>
              /\ {TxtPath(runs[r]), PdfPath(runs[r])} \subseteq runs[r].created
              /\ {TxtPath(runs[r]), PdfPath(runs[r])} \subseteq DOMAIN files
              /\ \A k \in 1..Len(files[PdfPath(runs[r])].body) :
                    \A i \in 1..Len(files[PdfPath(runs[r])].body[k]) :
                        files[PdfPath(runs[r])].body[k][i] <= 255

\* a run whose transcript held the euro sign failed when its PDF could not be
\* written and told the user, and another with the same transcript reached
\* delivery with a PDF in which "?" stands for the euro sign
C12_Witness ==
    \E r, q \in DOMAIN runs :
        /\ runs[r].transcription = <<8364, 10, 97>>
        /\ runs[r].failedAt = "pdf"
        /\ runs[r].pc = "failed"
        /\ runs[r].failure = <<FailureText(runs[r].cause)>>
        /\ runs[q].transcription = <<8364, 10, 97>>
        /\ runs[q].pc = "deliver"
        /\ PdfPath(runs[q]) # PdfPath(runs[r])
        /\ files[PdfPath(runs[q])].body = << <<63>>, <<97>> >>

\* how often the call x was made
Count(seq, x) == Cardinality({i \in 1..Len(seq) : seq[i] = x})

\* C13: a completion message carries the .txt and the .pdf of its run, both
\* written by the run before the message was sent; status_msg.delete is
\* called at most once and only with the completion message sent, and a run
\* that ended successfully has sent the completion and deleted the status
\* message once.
C13_CompletionThenDelete ==
    \A r \in DOMAIN runs :
        /\ runs[r].completion # <<>> =>
              /\ runs[r].completion[1].file = <<TxtPath(runs[r]), PdfPath(runs[r])>>
              /\ Len(runs[r].completion[1].sent) = 2
              /\ runs[r].completion[1].sent[1].kind = "txt"
              /\ runs[r].completion[1].sent[2].kind = "pdf"
              /\ {TxtPath(runs[r]), PdfPath(runs[r])} \subseteq runs[r].created
              /\ SubSeq(runs[r].log, 5, 8) = <<"txt", "pdf", "edit2", "deliver">>
        /\ Count(runs[r].log, "delete") <= 1
        /\ Contains(runs[r].log, "delete") => runs[r].completion # <<>>
        /\ runs[r].status_deleted =>
              /\ runs[r].completion # <<>>
              /\ Count(runs[r].log, "delete") = 1
        /\ runs[r].pc = "done" =>
              /\ runs[r].status_deleted
              /\ runs[r].completion # <<>>
              /\ runs[r].failure = <<>>

\* a run ended successfully: the completion went out with the two files and
\* the status message was deleted after it
C13_Witness ==
    \E r \in DOMAIN runs :
        /\ runs[r].pc = "done"
        /\ runs[r].completion # <<>>
        /\ Len(runs[r].completion[1].sent) = 2
        /\ runs[r].status_deleted
        /\ runs[r].log = Order

\* C14: the audio file transcribe_audio opened is open only while the
\* provider call is in flight; once transcribe_audio has returned or raised,
\* the file is closed.
C14_HandleClosedOnExit ==
    \A r \in DOMAIN runs :
        /\ runs[r].handle = "open" => runs[r].pc = "transcribe" /\ busy = r
        /\ (Contains(runs[r].log, "transcribe") /\ runs[r].pc # "transcribe")
              => runs[r].handle = "closed"
        /\ runs[r].failedAt = "transcribe" => runs[r].handle = "closed"

\* the provider raised in one run and returned in another; both files are closed
C14_Witness ==
    \E r, q \in DOMAIN runs :
        /\ runs[r].failedAt = "transcribe"
        /\ runs[r].pc = "except"
        /\ runs[r].handle = "closed"
        /\ runs[q].pc = "edit2"
        /\ runs[q].handle = "closed"

\* C15: a run calls download_media at most once and the provider at most
\* once; an exception of the provider is neither swallowed nor replaced: the
\* run fails in transcription with the provider's own exception as cause and
\* holds no transcript.
C15_NoRetryOriginalCause ==
    \A r \in DOMAIN runs :
        /\ Count(runs[r].log, "download") <= 1
        /\ Count(runs[r].log, "transcribe") <= 1
        /\ Count(runs[r].log, "raise") <= 1
        /\ runs[r].provider_error # "none" =>
              /\ runs[r].failedAt = "transcribe"
              /\ runs[r].cause = runs[r].provider_error
              /\ runs[r].pc \in {"except", "failed"}
              /\ runs[r].transcription = <<>>
        /\ runs[r].failedAt = "transcribe" => runs[r].provider_error \in Errors
        /\ runs[r].failedAt = "download" =>
              /\ Count(runs[r].log, "download") = 1
              /\ runs[r].created = {}

\* the provider timed out: the run ended with that cause after one call, and
\* another run ended after its single download failed
C15_Witness ==
    \E r, q \in DOMAIN runs :
        /\ runs[r].pc = "failed"
        /\ runs[r].provider_error = "timed out"
        /\ runs[r].failure = <<FailureText("timed out")>>
        /\ Count(runs[r].log, "transcribe") = 1
        /\ runs[q].pc = "failed"
        /\ runs[q].failedAt = "download"

\* C16: the step in which a run writes its text file leaves at the run's .txt
\* path the title line, the "Date: <timestamp>" line, a line of 50 dashes and
\* a blank line, followed by the transcript with every code point as the
\* provider returned it.
C16_TextArtifactVerbatim ==
    [][ \A r \in DOMAIN runs :
          ( /\ TxtPath(runs[r]) \notin runs[r].created
            /\ TxtPath(runs'[r]) \in runs'[r].created )
          => LET f == files'[TxtPath(runs[r])]
                 t == runs[r].transcription
             IN /\ f.kind = "txt"
                /\ Len(f.head) = 61
                /\ SubSeq(f.head, 1, 3) = <<"Audio Transcription", "\n", "Date: ">>
                /\ SubSeq(f.head, 4, 8) = DateStamp(now)
                /\ f.head[9] = "\n"
                /\ \A i \in 10..59 : f.head[i] = "-"
                /\ SubSeq(f.head, 60, 61) = <<"\n", "\n">>
                /\ Len(f.body) = 1
                /\ Len(f.body[1]) = Len(t)
                /\ \A i \in 1..Len(t) : f.body[1][i] = t[i]
                /\ t \in ProviderTexts ]_vars

\* a run has written both artifacts of the transcript "<euro>\na": the text
\* file holds the euro sign, the PDF holds "?" for it
C16_Witness ==
    \E r \in DOMAIN runs :
        /\ runs[r].pc = "edit2"
        /\ runs[r].transcription = <<8364, 10, 97>>
        /\ files[TxtPath(runs[r])].body = << <<8364, 10, 97>> >>
        /\ files[PdfPath(runs[r])].body = << <<63>>, <<97>> >>

\* the three working-file paths of a run whose names are computed
Paths(r) == {AudioPath(runs[r]), TxtPath(runs[r]), PdfPath(runs[r])}

\* C17: two runs of different senders have no working-file path in common,
\* whatever their timestamps, and wrote no common file; the files attached to
\* a completion message are at paths no run of another sender has written,
\* and the attached text is the transcript of a run of the same sender.
C17_SendersNeverSharePaths ==
    \A r, q \in DOMAIN runs :
        runs[r].user_id # runs[q].user_id =>
            /\ runs[r].created \cap runs[q].created = {}
            /\ (runs[r].timestamp # <<>> /\ runs[q].timestamp # <<>>)
                  => Paths(r) \cap Paths(q) = {}
            /\ runs[r].completion # <<>> =>
                  /\ \A i \in 1..Len(runs[r].completion[1].file) :
                        runs[r].completion[1].file[i] \notin runs[q].created
                  /\ \E s \in DOMAIN runs :
                        /\ runs[s].user_id = runs[r].user_id
                        /\ runs[r].completion[1].sent[1].body = <<runs[s].transcription>>

\* two senders' runs took their names in the same second, both wrote their
\* three files, different transcripts, and one has sent its completion
C17_Witness ==
    \E r, q \in DOMAIN runs :
        /\ runs[r].user_id # runs[q].user_id
        /\ runs[r].timestamp = runs[q].timestamp
        /\ runs[r].voice = runs[q].voice
        /\ runs[r].transcription # runs[q].transcription
        /\ Cardinality(runs[r].created) = 3
        /\ Cardinality(runs[q].created) = 3
        /\ Cardinality(DOMAIN files) = 6
        /\ runs[r].completion # <<>>

\* C18 (as stated): no run has sent both the completion message and a
\* failure message.
C18_CompletionOrFailureNotBoth ==
    \A r \in DOMAIN runs :
        ~(runs[r].completion # <<>> /\ runs[r].failure # <<>>)

\* the text the status message had been given when the call `stage` raised
LastProgress(stage) ==
    IF stage \in {"download", "edit1"} THEN <<StatusProcessing>>
    ELSE IF stage \in {"transcribe", "txt", "pdf", "edit2"} THEN <<StatusTranscribing>>
    ELSE IF stage \in {"deliver", "delete"} THEN <<StatusSending>>
    ELSE <<>>

\* C19: neither the step in which a call raises nor the step of the except
\* clause changes the status message: it is not edited and not deleted, and
\* a failed run's status message reads the last progress text it was given;
\* the status message is deleted only in a run that ended successfully.
C19_FailurePathLeavesStatus ==
    [][ \A r \in DOMAIN runs :
          /\ ( /\ runs'[r] # runs[r]
               /\ \/ runs[r].pc = "except"
                  \/ runs'[r].pc = "except" )
             => /\ runs'[r].status = runs[r].status
                /\ runs'[r].status_deleted = runs[r].status_deleted
          /\ runs'[r].pc \in {"except", "failed"} =>
                /\ ~runs'[r].status_deleted
                /\ runs'[r].status = LastProgress(runs'[r].failedAt)
          /\ runs'[r].status_deleted =>
                /\ runs'[r].pc = "done"
                /\ runs'[r].failedAt = "none" ]_vars

\* a run failed in delivery and sent its failure message; its status message
\* is still there and reads "Sending your transcription..."
C19_Witness ==
    \E r \in DOMAIN runs :
        /\ runs[r].pc = "failed"
        /\ runs[r].failedAt = "deliver"
        /\ runs[r].failure # <<>>
        /\ runs[r].status = <<StatusSending>>
        /\ ~runs[r].status_deleted

====
